---- MODULE Spec2Model ----
(***************************************************************************)
(* Model of scripts/create-demo-images.py: the placeholder image generator *)
(* create_placeholder_image and the batch driver create_all_placeholders.  *)
(*                                                                         *)
(* A path is the sequence of its components ("docs/screenshots/a.png" is   *)
(* <<"docs", "screenshots", "a.png">>); the empty sequence is the empty    *)
(* string "".  Relative paths resolve against the current directory, which *)
(* always exists.  A canvas is the list of draw calls applied to it, a     *)
(* file's content is the encoded canvas.  Accented letters of the source's *)
(* literals are written without the accent (same number of characters).    *)
(***************************************************************************)
EXTENDS Integers, Sequences, FiniteSets

VARIABLES pc, i, args, fontEnv, attempts, fonts, img, layout,
          dirs, files, out, err, pre, fs0, log

vars == <<pc, i, args, fontEnv, attempts, fonts, img, layout,
          dirs, files, out, err, pre, fs0, log>>

\* ------------------------------------------------------------ constants

WIDTH == 1200
HEIGHT == 800
FONT_SIZE == 24

\* Calls a caller of create_placeholder_image makes in GenSpec and EnvSpec.
MaxCalls == 2

\* ---------------------------------------------------------------- paths

Shot(group, name) == <<"docs", "screenshots", group, name>>

\* The hardcoded list of create_all_placeholders: (filename, title, description).
Images ==
  << <<Shot("login", "login-page.png"), "Page de Connexion",
       "Saisissez vos identifiants pour acceder a ClockPilot">>,
     <<Shot("login", "login-error.png"), "Erreur de Connexion",
       "Identifiants incorrects - Verifiez votre email et mot de passe">>,
     <<Shot("login", "login-success.png"), "Connexion Reussie",
       "Redirection vers votre tableau de bord...">>,
     <<Shot("employee", "dashboard.png"), "Tableau de Bord Employe",
       "Vue d'ensemble de votre activite et planning">>,
     <<Shot("employee", "planning-month.png"), "Planning Mensuel",
       "Consultez votre planning sur un mois complet">>,
     <<Shot("employee", "time-tracking.png"), "Pointage Temps Reel",
       "Enregistrez vos heures de travail en temps reel">>,
     <<Shot("employee", "manual-entry.png"), "Saisie Manuelle",
       "Ajoutez des heures de travail manuellement">>,
     <<Shot("employee", "reports.png"), "Rapports Personnels",
       "Analysez vos statistiques de travail">>,
     <<Shot("employee", "profile.png"), "Profil Utilisateur",
       "Gerez vos informations personnelles et preferences">>,
     <<Shot("admin", "dashboard.png"), "Tableau de Bord Admin",
       "Vue d'ensemble de l'activite de l'entreprise">>,
     <<Shot("admin", "employees-list.png"), "Gestion des Employes",
       "Consultez et administrez votre equipe">>,
     <<Shot("admin", "employee-create.png"), "Creation d'Employe",
       "Ajoutez un nouveau membre a l'equipe">>,
     <<Shot("admin", "validation.png"), "Validation des Heures",
       "Approuvez ou rejetez les heures saisies">>,
     <<Shot("admin", "export-dialog.png"), "Export de Donnees",
       "Generez des rapports personnalises">> >>

\* os.path.dirname: the path without its last component ("" for a bare name).
dirname(p) == SubSeq(p, 1, Len(p) - 1)

\* The non-empty leading parts of a path, up to n components.
Prefixes(p, n) == { SubSeq(p, 1, k) : k \in 1..n }

\* ---------------------------------------------------------------- fonts

NoFont == [face |-> "", size |-> 0]

\* What a font file can be on the machine the script runs on.
FontStatus == {"ok", "missing", "unreadable"}

FontEnvs == [helvetica : FontStatus, arial : FontStatus]

\* ImageFont.truetype on a font file: the exception it raises, "none" if it loads.
truetype(status) ==
  CASE status = "ok" -> "none"
    [] status = "missing" -> "not_found"
    [] status = "unreadable" -> "bad_format"

CaughtNotFoundOnly(exc) == exc = "not_found"

\* The handlers are bare "except:" clauses: every exception is caught.
Caught(exc) == TRUE

\* ImageFont.load_default(): the built-in font, of a fixed size.
load_default == [face |-> "default", size |-> 10]

\* -------------------------------------------------------------- drawing

NoImage == [width |-> 0, height |-> 0, bg |-> "", ops |-> <<>>]

NoLayout == [title_width |-> 0, title_x |-> 0, desc_width |-> 0, desc_x |-> 0]

Rect(box, fill, outline, width) ==
  [op |-> "rectangle", at |-> box, text |-> "", fill |-> fill,
   outline |-> outline, width |-> width, font |-> NoFont]

Text(xy, text, fill, font) ==
  [op |-> "text", at |-> xy, text |-> text, fill |-> fill,
   outline |-> "", width |-> 0, font |-> font]

\* textbbox(...)[2] - textbbox(...)[0]: the rendered width of a text in a font,
\* one advance per character; the advance grows with the font's size.
TextWidth(text, font) ==
  Len(text) * (IF font.face = "default" THEN 6 ELSE font.size \div 2)

CenterXNoParens(w) == WIDTH - w \div 2

\* title_x = (WIDTH - title_width) // 2, and the same for the description.
CenterX(w) == (WIDTH - w) \div 2

\* The draw calls of one image, in the order of the source.
DrawOps(title, description, ft, fd) ==
  << Rect(<<0, 0, WIDTH, 100>>, "#3b82f6", "", 0),
     Text(<<CenterX(TextWidth(title, ft)), 30>>, title, "white", ft),
     Text(<<CenterX(TextWidth(description, fd)), 200>>, description, "#1f2937", fd),
     Rect(<<50, 150, WIDTH - 50, 180>>, "", "#e5e7eb", 2),
     Rect(<<100, 250, WIDTH - 100, HEIGHT - 100>>, "", "#e5e7eb", 2),
     Rect(<<120, 270, 250, 310>>, "#ef4444", "", 0),
     Text(<<135, 285>>, "Action", "white", fd),
     Text(<<120, 350>>, "Interface ClockPilot", "#1f2937", fd),
     Text(<<120, 380>>, "Gestion des temps et planning", "#6b7280", fd),
     Text(<<50, HEIGHT - 50>>, "(c) 2024 ClockPilot", "#9ca3af", fd) >>

\* img.save(filename, 'PNG') encodes the canvas losslessly.
Encode(im) ==
  [format |-> "PNG", width |-> im.width, height |-> im.height,
   bg |-> im.bg, ops |-> im.ops]

\* ---------------------------------------------------------- file system

\* A file some other program left: not an image this script renders.
Stale == [format |-> "PNG", width |-> 640, height |-> 480, bg |-> "#000000", ops |-> <<>>]

\* What an interrupted write leaves.
Truncated == [format |-> "truncated", width |-> 0, height |-> 0, bg |-> "", ops |-> <<>>]

NoFiles == [p \in {} |-> Stale]

Write(fs, p, c) == [q \in DOMAIN fs \cup {p} |-> IF q = p THEN c ELSE fs[q]]

\* The file systems a run starts from: nothing there; a screenshots tree of an
\* earlier run with an old image and a file of someone else; a file named docs.
InitFS ==
  { [dirs |-> {}, files |-> NoFiles],
    [dirs |-> Prefixes(Shot("login", "x"), 3),
     files |-> Write(Write(NoFiles, Shot("login", "login-page.png"), Stale),
                     Shot("login", "README.md"), Stale)],
    [dirs |-> {}, files |-> Write(NoFiles, <<"docs">>, Stale)] }

\* os.makedirs(name, exist_ok=True): the exception raised ("none" on success)
\* and the directories afterwards.
makedirs(name, ds, fs) ==
  IF name = <<>>
    THEN {[raised |-> "FileNotFoundError", dirs |-> ds]}
  ELSE IF name \in ds
    THEN {[raised |-> "none", dirs |-> ds]}
  ELSE IF \E q \in Prefixes(name, Len(name)) : q \in DOMAIN fs
    THEN {[raised |-> "FileExistsError", dirs |-> ds]}
  ELSE {[raised |-> "none", dirs |-> ds \cup Prefixes(name, Len(name))]}
       \cup { [raised |-> "PermissionError", dirs |-> ds \cup Prefixes(name, n)] :
                n \in 0..(Len(name) - 1) }

ParentExists(p, ds) == Len(p) = 1 \/ dirname(p) \in ds

\* img.save(filename, 'PNG'): the exception raised and the files afterwards.
save(im, filename, ds, fs) ==
  IF filename \in ds
    THEN {[raised |-> "IsADirectoryError", files |-> fs]}
  ELSE IF ~ParentExists(filename, ds)
    THEN {[raised |-> "FileNotFoundError", files |-> fs]}
  ELSE { [raised |-> "none", files |-> Write(fs, filename, Encode(im))],
         [raised |-> "OSError", files |-> fs],
         [raised |-> "OSError", files |-> Write(fs, filename, Truncated)] }

\* -------------------------------------------------------------- console

StartBanner == [kind |-> "start", file |-> <<>>]
EndBanner == [kind |-> "end", file |-> <<>>]

\* print(f"... Image creee: {filename}")
ConfirmLine(filename) == [kind |-> "confirm", file |-> filename]

\* ---------------------------------------------------------------- state

NoArgs == [title |-> "", description |-> "", filename |-> <<>>]
NoErr == [at |-> "", type |-> "none", index |-> 0]

InitCommon ==
  /\ i = 0
  /\ args = NoArgs
  /\ fontEnv \in FontEnvs
  /\ attempts = <<>>
  /\ fonts = [title |-> NoFont, desc |-> NoFont]
  /\ img = NoImage
  /\ layout = NoLayout
  /\ \E f \in InitFS : dirs = f.dirs /\ files = f.files /\ fs0 = f
  /\ out = <<>>
  /\ err = NoErr
  /\ pre = [dirs |-> {}, files |-> NoFiles]
  /\ log = <<>>

Init == pc = "start" /\ InitCommon

RaiseContinue(at, type) ==
  /\ pc' = "loop"
  /\ i' = i + 1
  /\ err' = [at |-> at, type |-> type, index |-> i + 1]

\* Nothing catches an exception of makedirs or save: it leaves the generator and
\* the loop of create_all_placeholders, and ends the program.
Raise(at, type) ==
  /\ pc' = "crashed"
  /\ i' = i
  /\ err' = [at |-> at, type |-> type, index |-> i + 1]

\* --------------------------------------------- create_placeholder_image

NewImageReused ==
  /\ pc = "new"
  /\ img' = IF img = NoImage
              THEN [width |-> WIDTH, height |-> HEIGHT, bg |-> "#f8fafc", ops |-> <<>>]
              ELSE img
  /\ pc' = "font_preferred"
  /\ UNCHANGED <<i, args, fontEnv, attempts, fonts, layout, dirs, files, out, err,
                 pre, fs0, log>>

NewImageSwapped ==
  /\ pc = "new"
  /\ img' = [width |-> HEIGHT, height |-> WIDTH, bg |-> "#f8fafc", ops |-> <<>>]
  /\ pc' = "font_preferred"
  /\ UNCHANGED <<i, args, fontEnv, attempts, fonts, layout, dirs, files, out, err,
                 pre, fs0, log>>

\* img = Image.new('RGB', (WIDTH, HEIGHT), color='#f8fafc')
NewImage ==
  /\ pc = "new"
  /\ img' = [width |-> WIDTH, height |-> HEIGHT, bg |-> "#f8fafc", ops |-> <<>>]
  /\ pc' = "font_preferred"
  /\ UNCHANGED <<i, args, fontEnv, attempts, fonts, layout, dirs, files, out, err,
                 pre, fs0, log>>

\* One tier of the chain: both sizes are loaded from the same font file.
LoadTier(tier, face, status, next) ==
  LET exc == truetype(status) IN
  /\ attempts' = Append(attempts, [tier |-> tier, raised |-> exc])
  /\ IF exc = "none"
       THEN /\ fonts' = [title |-> [face |-> face, size |-> FONT_SIZE + 8],
                         desc |-> [face |-> face, size |-> FONT_SIZE - 4]]
            /\ pc' = "draw"
            /\ UNCHANGED <<i, err>>
       ELSE IF Caught(exc)
         THEN /\ pc' = next
              /\ UNCHANGED <<fonts, i, err>>
         ELSE /\ Raise("truetype", exc)
              /\ UNCHANGED fonts
  /\ UNCHANGED <<args, fontEnv, img, layout, dirs, files, out, pre, fs0, log>>

\* try: ImageFont.truetype("/System/Library/Fonts/Helvetica.ttc", ...)
LoadPreferred ==
  /\ pc = "font_preferred"
  /\ LoadTier(1, "Helvetica", fontEnv.helvetica, "font_fallback")

\* except: try: ImageFont.truetype("arial.ttf", ...)
LoadFallback ==
  /\ pc = "font_fallback"
  /\ LoadTier(2, "arial", fontEnv.arial, "font_default")

\* except: ImageFont.load_default()
LoadDefault ==
  /\ pc = "font_default"
  /\ attempts' = Append(attempts, [tier |-> 3, raised |-> "none"])
  /\ fonts' = [title |-> load_default, desc |-> load_default]
  /\ pc' = "draw"
  /\ UNCHANGED <<i, args, fontEnv, img, layout, dirs, files, out, err, pre, fs0, log>>

\* The header, the centred title and description, the boxes and the texts.
Draw ==
  /\ pc = "draw"
  /\ layout' = [title_width |-> TextWidth(args.title, fonts.title),
                title_x |-> CenterX(TextWidth(args.title, fonts.title)),
                desc_width |-> TextWidth(args.description, fonts.desc),
                desc_x |-> CenterX(TextWidth(args.description, fonts.desc))]
  /\ img' = [img EXCEPT !.ops = @ \o DrawOps(args.title, args.description,
                                              fonts.title, fonts.desc)]
  /\ pc' = "makedirs"
  /\ UNCHANGED <<i, args, fontEnv, attempts, fonts, dirs, files, out, err, pre, fs0, log>>

MakedirsConfirmsEarly ==
  /\ pc = "makedirs"
  /\ \E r \in makedirs(dirname(args.filename), dirs, files) :
       /\ dirs' = r.dirs
       /\ IF r.raised = "none"
            THEN pc' = "save" /\ out' = Append(out, ConfirmLine(args.filename))
                 /\ UNCHANGED <<i, err>>
            ELSE Raise("makedirs", r.raised) /\ UNCHANGED out
  /\ UNCHANGED <<args, fontEnv, attempts, fonts, img, layout, files, pre, fs0, log>>

\* os.makedirs(os.path.dirname(filename), exist_ok=True)
Makedirs ==
  /\ pc = "makedirs"
  /\ \E r \in makedirs(dirname(args.filename), dirs, files) :
       /\ dirs' = r.dirs
       /\ IF r.raised = "none"
            THEN pc' = "save" /\ UNCHANGED <<i, err>>
            ELSE Raise("makedirs", r.raised)
  /\ UNCHANGED <<args, fontEnv, attempts, fonts, img, layout, files, out, pre, fs0, log>>

SaveSkipsExisting ==
  /\ pc = "save"
  /\ \E r \in save(img, args.filename, dirs, files) :
       /\ files' = IF args.filename \in DOMAIN files THEN files ELSE r.files
       /\ IF r.raised = "none"
            THEN pc' = "print" /\ UNCHANGED <<i, err>>
            ELSE Raise("save", r.raised)
  /\ UNCHANGED <<args, fontEnv, attempts, fonts, img, layout, dirs, out, pre, fs0, log>>

\* img.save(filename, 'PNG')
Save ==
  /\ pc = "save"
  /\ \E r \in save(img, args.filename, dirs, files) :
       /\ files' = r.files
       /\ IF r.raised = "none"
            THEN pc' = "print" /\ UNCHANGED <<i, err>>
            ELSE Raise("save", r.raised)
  /\ UNCHANGED <<args, fontEnv, attempts, fonts, img, layout, dirs, out, pre, fs0, log>>

\* print(...) and the return to the caller; log records the finished call.
Confirm ==
  /\ pc = "print"
  /\ out' = Append(out, ConfirmLine(args.filename))
  /\ log' = Append(log, [title |-> args.title, description |-> args.description,
                         filename |-> args.filename, fonts |-> fonts,
                         content |-> files[args.filename],
                         dirs |-> dirs, files |-> files])
  /\ i' = i + 1
  /\ pc' = "loop"
  /\ UNCHANGED <<args, fontEnv, attempts, fonts, img, layout, dirs, files, err, pre, fs0>>

Generator ==
  \/ NewImage
  \/ LoadPreferred
  \/ LoadFallback
  \/ LoadDefault
  \/ Draw
  \/ Makedirs
  \/ Save
  \/ Confirm

\* Entering create_placeholder_image(title, description, filename): the locals
\* are unbound, pre records the file system the call starts from.
Enter(title, description, filename) ==
  /\ args' = [title |-> title, description |-> description, filename |-> filename]
  /\ attempts' = <<>>
  /\ fonts' = [title |-> NoFont, desc |-> NoFont]
  /\ layout' = NoLayout
  /\ pre' = [dirs |-> dirs, files |-> files]
  /\ pc' = "new"
  /\ UNCHANGED <<i, fontEnv, img, dirs, files, out, err, fs0, log>>

\* ---------------------------------------------- create_all_placeholders

\* The start banner.
Start ==
  /\ pc = "start"
  /\ out' = Append(out, StartBanner)
  /\ pc' = "loop"
  /\ UNCHANGED <<i, args, fontEnv, attempts, fonts, img, layout, dirs, files, err,
                 pre, fs0, log>>

IterateReversed ==
  /\ pc = "loop"
  /\ i < Len(Images)
  /\ Enter(Images[Len(Images) - i][2], Images[Len(Images) - i][3],
           Images[Len(Images) - i][1])

\* for filename, title, description in images:
\*     create_placeholder_image(title, description, filename)
Iterate ==
  /\ pc = "loop"
  /\ i < Len(Images)
  /\ Enter(Images[i + 1][2], Images[i + 1][3], Images[i + 1][1])

\* The completion banner, after the last image.
Finish ==
  /\ pc = "loop"
  /\ i = Len(Images)
  /\ out' = Append(out, EndBanner)
  /\ pc' = "done"
  /\ UNCHANGED <<i, args, fontEnv, attempts, fonts, img, layout, dirs, files, err,
                 pre, fs0, log>>

Next == Start \/ Iterate \/ Finish \/ Generator

Spec == Init /\ [][Next]_vars

\* ------------------------------------- callers of the generator (GenSpec)

\* A title of 80 characters: wider than the canvas in a 32-point font.
LongTitle == "Tableau de Bord Employe - Vue d'ensemble de votre activite et planning du mois ."

GenTitles == {"Page de Connexion", LongTitle}
GenDescriptions == {"Saisissez vos identifiants pour acceder a ClockPilot"}
GenPaths == {Shot("login", "login-page.png"), Shot("admin", "dashboard.png"),
             <<"placeholder.png">>}

GenInit == pc = "loop" /\ InitCommon

\* Some caller calls create_placeholder_image with arguments of its own.
Call ==
  /\ pc = "loop"
  /\ i < MaxCalls
  /\ \E t \in GenTitles, d \in GenDescriptions, f \in GenPaths : Enter(t, d, f)

GenNext == Call \/ Generator

\* Calls of the generator in one environment.
GenSpec == GenInit /\ [][GenNext]_vars

\* Between two calls a font is installed, removed or damaged.
FontsChange ==
  /\ pc = "loop"
  /\ 0 < i /\ i < MaxCalls
  /\ \E e \in FontEnvs : e # fontEnv /\ fontEnv' = e
  /\ UNCHANGED <<pc, i, args, attempts, fonts, img, layout, dirs, files, out, err,
                 pre, fs0, log>>

EnvNext == Call \/ FontsChange \/ Generator

\* Calls of the generator in environments that differ from call to call.
EnvSpec == GenInit /\ [][EnvNext]_vars

\* ================================================================ claims

GenPcs == {"new", "font_preferred", "font_fallback", "font_default", "draw",
           "makedirs", "save", "print"}

ImagePaths == { Images[k][1] : k \in 1..Len(Images) }

IsConfirm(l) == l.kind = "confirm"

Confirms == SelectSeq(out, IsConfirm)

FreshStart == <<"docs", "screenshots">> \notin fs0.dirs

SameArgs(a, b) ==
  a.title = b.title /\ a.description = b.description /\ a.filename = b.filename

\* C1: a batch that runs to completion with no output directory there before
\* has written exactly the 14 declared, pairwise distinct paths (and no other
\* file), each from a canvas of 1200 by 800.
C1_ExactlyTheDeclaredFiles ==
  (pc = "done" /\ FreshStart) =>
    /\ Len(Images) = 14
    /\ Cardinality(ImagePaths) = 14
    /\ DOMAIN files = ImagePaths \cup DOMAIN fs0.files
    /\ \A p \in ImagePaths :
         files[p].format = "PNG" /\ files[p].width = 1200 /\ files[p].height = 800

C1_Witness ==
  /\ pc = "done"
  /\ fs0.dirs = {} /\ fs0.files = NoFiles
  /\ Cardinality(DOMAIN files) = 14
  /\ files[Shot("admin", "export-dialog.png")].width = 1200

\* C2: the console of a batch without failure is the start banner, then one
\* confirmation line per image, naming its file, in list order, then the
\* completion banner; image k+1 is entered only when images 1..k are finished
\* (saved, confirmed, returned).
C2_ConsoleInListOrder ==
  LET Expected(n) == <<[kind |-> "start", file |-> <<>>]>>
                       \o [k \in 1..n |-> [kind |-> "confirm", file |-> Images[k][1]]]
  IN
  /\ pc = "done" => out = Expected(Len(Images)) \o <<[kind |-> "end", file |-> <<>>]>>
  /\ pc \in GenPcs =>
       /\ i < Len(Images)
       /\ args.filename = Images[i + 1][1]
       /\ args.title = Images[i + 1][2]
       /\ args.description = Images[i + 1][3]
       /\ Len(log) = i
       /\ \A k \in 1..i : log[k].filename = Images[k][1]
                          /\ Images[k][1] \in DOMAIN files
       /\ out = Expected(i)

C2_Witness ==
  /\ pc = "done"
  /\ Len(out) = 16
  /\ out[15].file = Shot("admin", "export-dialog.png")

\* C3 (as amended): the fonts are resolved by a chain of three tiers, a tier
\* being attempted only if the one before raised (whatever it raised); no font
\* failure leaves the generator; for every availability of the two named font
\* files the call resolves both fonts, from the first tier that loads, and goes
\* on to draw and save.
C3_FontChainNeverFails ==
  LET face == IF fontEnv.helvetica = "ok" THEN "Helvetica"
              ELSE IF fontEnv.arial = "ok" THEN "arial" ELSE "default"
  IN
  /\ err.at # "truetype"
  /\ Len(attempts) <= 3
  /\ \A k \in 1..Len(attempts) :
       /\ attempts[k].tier = k
       /\ k > 1 => attempts[k - 1].raised # "none"
  /\ pc \in {"draw", "makedirs", "save", "print"} =>
       /\ attempts # <<>>
       /\ attempts[Len(attempts)].raised = "none"
       /\ fonts.title.face = face /\ fonts.desc.face = face
       /\ fonts.title.size > 0 /\ fonts.desc.size > 0
  /\ pc \in {"makedirs", "save", "print"} => Len(img.ops) = 10

\* C3 as first stated: a tier is attempted only if the one before raised a
\* resource-not-found condition.
C3_OnlyAfterNotFound ==
  \A k \in 2..Len(attempts) : attempts[k - 1].raised = "not_found"

C3_Witness ==
  /\ pc = "print"
  /\ fontEnv.helvetica = "missing" /\ fontEnv.arial = "missing"
  /\ Len(attempts) = 3
  /\ fonts.title = [face |-> "default", size |-> 10]
  /\ args.filename \in DOMAIN files

\* C4: a failure of makedirs or save at image k ends the batch: the program
\* has crashed, no image after k is generated, no confirmation line names
\* image k or a later one, the completion banner is not printed, and the
\* files of the images before k are as they were written.
C4_FailureEndsTheBatch ==
  err # NoErr =>
    LET k == err.index IN
    /\ pc = "crashed"
    /\ err.at \in {"makedirs", "save"}
    /\ i = k - 1
    /\ Len(log) = k - 1
    /\ \A n \in 1..Len(out) :
         /\ out[n].kind # "end"
         /\ out[n].kind = "confirm" => \E j \in 1..(k - 1) : out[n].file = Images[j][1]
    /\ \A j \in 1..(k - 1) :
         Images[j][1] \in DOMAIN files /\ files[Images[j][1]] = log[j].content
    /\ \A j \in (k + 1)..Len(Images) :
         IF Images[j][1] \in DOMAIN fs0.files
           THEN Images[j][1] \in DOMAIN files
                /\ files[Images[j][1]] = fs0.files[Images[j][1]]
           ELSE Images[j][1] \notin DOMAIN files

C4_Witness ==
  /\ pc = "crashed"
  /\ err.at = "save" /\ err.index = 3
  /\ Len(out) = 3
  /\ Shot("login", "login-error.png") \in DOMAIN files

\* The part of C5 that holds of every call: after the directory step every
\* ancestor of the file exists, a finished call has written the file, and every
\* other file and directory is as it was when the call began.
AncestorsAndFrame ==
  /\ pc \in {"save", "print"} =>
       Prefixes(dirname(args.filename), Len(args.filename) - 1) \subseteq dirs
  /\ pc = "print" =>
       args.filename \in DOMAIN files /\ files[args.filename] = Encode(img)
  /\ pc \in GenPcs \cup {"crashed"} =>
       /\ pre.dirs \subseteq dirs
       /\ \A p \in DOMAIN pre.files \ {args.filename} :
            p \in DOMAIN files /\ files[p] = pre.files[p]
       /\ DOMAIN files \subseteq DOMAIN pre.files \cup {args.filename}

\* C5: a call whose parent directory tree is missing creates every missing
\* ancestor and then writes the file; a call whose parent already exists gets
\* past the directory step as well; in both cases every other file of the file
\* system is as it was when the call began.
C5_AutoCreationAndFrame ==
  /\ AncestorsAndFrame
  /\ ParentExists(args.filename, pre.dirs) => err.at # "makedirs"

\* C6: two calls in a row with the same title, description and path leave the
\* file system as one call does, and the file a finished call leaves is the
\* rendered image, whatever was at the path before.
C6_Idempotent ==
  \A k \in 1..Len(log) :
    /\ log[k].content =
         [format |-> "PNG", width |-> WIDTH, height |-> HEIGHT, bg |-> "#f8fafc",
          ops |-> DrawOps(log[k].title, log[k].description,
                          log[k].fonts.title, log[k].fonts.desc)]
    /\ log[k].files[log[k].filename] = log[k].content
    /\ (k > 1 /\ SameArgs(log[k], log[k - 1])) =>
         log[k].files = log[k - 1].files /\ log[k].dirs = log[k - 1].dirs

C6_Witness ==
  /\ Len(log) = 2
  /\ SameArgs(log[1], log[2])
  /\ log[1].filename \in DOMAIN fs0.files
  /\ fs0.files[log[1].filename] # log[1].content
  /\ files = log[1].files

Centred(w, x) == x >= 0 /\ x + w <= WIDTH

\* C7 (as amended): the offset is (WIDTH - w) // 2, and for a text whose
\* rendered width w is at most WIDTH it satisfies offset >= 0 and
\* offset + w <= WIDTH.
C7_CentredWhenItFits ==
  pc \in {"makedirs", "save", "print"} =>
    /\ 2 * layout.title_x \in {WIDTH - layout.title_width, WIDTH - layout.title_width - 1}
    /\ 2 * layout.desc_x \in {WIDTH - layout.desc_width, WIDTH - layout.desc_width - 1}
    /\ layout.title_width <= WIDTH => Centred(layout.title_width, layout.title_x)
    /\ layout.desc_width <= WIDTH => Centred(layout.desc_width, layout.desc_x)
    /\ img.ops[2].at[1] = layout.title_x /\ img.ops[3].at[1] = layout.desc_x

\* C7 as first stated: for any title or description the offset satisfies
\* offset >= 0 and offset + w <= WIDTH.
C7_CentredAlways ==
  pc \in {"makedirs", "save", "print"} =>
    /\ Centred(layout.title_width, layout.title_x)
    /\ Centred(layout.desc_width, layout.desc_x)

C7_Witness ==
  /\ pc = "print"
  /\ layout.title_width = 17 * 16
  /\ layout.title_x = 464
  /\ layout.desc_width > 0 /\ layout.desc_x > 0

\* C8 (as amended): two runs of the generator on the same title, description
\* and path that resolve the same fonts produce the same file content.
C8_SameFontsSameContent ==
  \A j, k \in 1..Len(log) :
    (SameArgs(log[j], log[k]) /\ log[j].fonts = log[k].fonts) =>
      log[j].content = log[k].content

\* C8 as first stated: two runs on the same title, description and path
\* produce the same content, whichever font tier each resolved.
C8_SameContentWhateverFonts ==
  \A j, k \in 1..Len(log) :
    SameArgs(log[j], log[k]) => log[j].content = log[k].content

C8_Witness ==
  /\ Len(log) = 2
  /\ SameArgs(log[1], log[2])
  /\ log[1].fonts = log[2].fonts
  /\ log[1].fonts.title.face = "arial"
  /\ fontEnv.helvetica = "unreadable"
  /\ log[1].content = log[2].content

\* C9: for a bare file name the directory step raises no error.
C9_BareNameNoError ==
  Len(args.filename) = 1 => err.at # "makedirs"

\* C10: the confirmation lines printed so far name a prefix of the list, in
\* order; every file one names has been written; within an image the order is
\* directory, save, print; no line names an image whose makedirs or save failed.
C10_ConfirmedMeansWritten ==
  /\ Len(Confirms) <= Len(Images)
  /\ Len(Confirms) = Len(log)
  /\ \A n \in 1..Len(Confirms) :
       /\ Confirms[n].file = Images[n][1]
       /\ Confirms[n].file \in DOMAIN files
       /\ files[Confirms[n].file] = log[n].content
       /\ log[n].content.format = "PNG"
  /\ pc \in GenPcs => Len(Confirms) = i
  /\ pc \in {"save", "print"} => dirname(args.filename) \in dirs
  /\ pc = "print" => files[args.filename] = Encode(img)
  /\ err # NoErr => \A n \in 1..Len(Confirms) : Confirms[n].file # Images[err.index][1]

C10_Witness ==
  /\ pc = "crashed"
  /\ err.at = "makedirs" /\ err.index = 4
  /\ Len(Confirms) = 3

====
